---- MODULE Spec2Model ----
(***************************************************************************)
(* A model of raiden/network/proxies/payment_channel.py: the PaymentChannel *)
(* proxy, its resolution from the ChannelOpened log, its event-derived      *)
(* queries, the partner-keyed lock scope and the delegated mutating calls.  *)
(***************************************************************************)
EXTENDS Integers, Sequences, FiniteSets, TLC

VARIABLES
    log,                      \* the ledger's event log, in ledger order
    channels,                 \* PaymentChannel objects, by slot
    channel_operations_lock,  \* token_network.channel_operations_lock: partner -> RLock
    scopes,                   \* per caller: the stack of lock_or_raise scopes it is inside
    waiting,                  \* per caller: the lock_or_raise scope it is blocked entering
    inflight,                 \* per caller: the delegated collaborator call in progress
    lastOp                    \* the last completed operation and what it produced

vars == <<log, channels, channel_operations_lock, scopes, waiting, inflight, lastOp>>

----------------------------------------------------------------------------
(* Bounds of the model *)

MaxLog == 3
NumCallers == 2
MaxDepth == 2

----------------------------------------------------------------------------
(* Python integers.  A channel id is an unbounded int compared with          *)
(* UINT256_MAX = 2^256 - 1.  An int n is written <<q, r>> = q * 2^256 + r    *)
(* with |r| < 2^255, which is unique, so order is lexicographic and exact.   *)

PyInt(q, r) == <<q, r>>

IntLess(a, b) == a[1] < b[1] \/ (a[1] = b[1] /\ a[2] < b[2])

UINT256_MAX == PyInt(1, -1)

RECURSIVE Digits(_, _)
Digits(n, base) ==
    IF n < base THEN <<n>> ELSE Append(Digits(n \div base, base), n % base)

PadLeft(s, width) ==
    IF Len(s) >= width THEN s
    ELSE [i \in 1..width |-> IF i <= width - Len(s) THEN 0 ELSE s[i - (width - Len(s))]]

\* The base-`base` digits of a non-negative int below 2 * 2^256, most significant
\* first, at least `width` of them (base^width = 2^256).
DigitsOfInt(n, base, width) ==
    IF n[1] = 0 THEN PadLeft(Digits(n[2], base), width)
    ELSE IF n[2] < 0
         THEN LET low == PadLeft(Digits(-n[2] - 1, base), width)
              IN  [i \in 1..width |-> (base - 1) - low[i]]
         ELSE <<1>> \o PadLeft(Digits(n[2], base), width)

\* f'{n:064x}' without the 0x prefix: a sequence of hex digits.
Format064x(n) == DigitsOfInt(n, 16, 64)

\* The 32-byte big-endian word the ledger program emits for a uint256 topic.
Uint256Word(n) == DigitsOfInt(n, 256, 32)

\* eth_utils.decode_hex: hex digits (0x prefix dropped) to bytes.
decode_hex(h) == [i \in 1..(Len(h) \div 2) |-> 16 * h[2 * i - 1] + h[2 * i]]

----------------------------------------------------------------------------
(* The ledger: addresses, the token network, log entries, filters *)

\* Hex-encoded addresses as they appear in decoded event arguments.
HexAA == <<10, 10>>
HexBB == <<11, 11>>
HexCC == <<12, 12>>

\* The collaborator (TokenNetwork): its contract address and the local node.
token_network == [address |-> "token_network", node_address |-> decode_hex(HexBB)]

\* Results of an operation: a raised exception, or a returned value
\* (value = <<>> is Python's None).
Raise(exc, msg) == [exc |-> exc, msg |-> msg, value |-> <<>>]
Return(v) == [exc |-> "", msg |-> "", value |-> <<v>>]
ReturnNone == [exc |-> "", msg |-> "", value |-> <<>>]

\* The topics the ledger program emits for an entry: first the event signature,
\* second the indexed channel identifier as a 32-byte word.
Topic(entry, position) ==
    IF position = 1 THEN <<entry.event>> ELSE Uint256Word(entry.channel_identifier)

\* One topic constraint of a filter against one topic of an entry: None (<<>>)
\* matches anything; an event signature matches itself; a 0x-hex word matches
\* the 32 bytes it spells.
TopicMatches(constraint, topic, position) ==
    \/ constraint = <<>>
    \/ /\ position = 1
       /\ constraint = topic
    \/ /\ position = 2
       /\ Len(constraint) = 64
       /\ decode_hex(constraint) = topic

FilterMatches(filter, entry) ==
    /\ filter.address = entry.address
    /\ \A i \in 1..Len(filter.topics) :
           TopicMatches(filter.topics[i], Topic(entry, i), i)
    /\ \A b \in {filter.fromBlock[i] : i \in 1..Len(filter.fromBlock)} :
           entry.blockNumber >= b
    /\ \A b \in {filter.toBlock[i] : i \in 1..Len(filter.toBlock)} :
           entry.blockNumber <= b

get_filter_args_for_specific_event_from_channel(token_network_address, channel_identifier, event_name) ==
    [address   |-> token_network_address,
     topics    |-> << <<event_name>>, Format064x(channel_identifier) >>,
     fromBlock |-> <<>>,
     toBlock   |-> <<>>]

\* web3.eth.getLogs: the matching entries, in ledger order.
getLogs(ledger, filter_args) ==
    SelectSeq(ledger, LAMBDA entry : FilterMatches(filter_args, entry))

\* decode_event: the structured record of one raw entry.
decode_event(entry) ==
    [event |-> entry.event, args |-> entry.args, blockNumber |-> entry.blockNumber]

----------------------------------------------------------------------------
(* PaymentChannel.__init__ *)

InvalidIdMessage == "channel_identifier of {} is not a uint256"
NonExistingMessage == "Channel is non-existing."
NotParticipantMessage == "One participant must be the node address"

\* A faulty variant of Canonical: the labels are kept in the event's positional order.
Canonical_unswapped(node_address, participant1, participant2) ==
    <<participant1, participant2>>

\* The canonical labelling: the local node is participant1.
Canonical(node_address, participant1, participant2) ==
    IF node_address = participant2
    THEN <<participant2, participant1>>
    ELSE <<participant1, participant2>>

\* A fresh RLock: no owner (callers are numbered from 1), not held.
RLockNew == [owner |-> 0, count |-> 0]

\* A faulty variant of NotUint256: the lower bound is not checked.
NotUint256_upper_only(channel_id) == IntLess(UINT256_MAX, channel_id)

NotUint256(channel_id) ==
    \/ IntLess(channel_id, PyInt(0, 0))
    \/ IntLess(UINT256_MAX, channel_id)

\* A faulty variant of NodeIsAbsent: the participants are not validated.
NodeIsAbsent_unchecked(node_address, participant1, participant2) == FALSE

\* A faulty variant of NoEvents: `>=` for `>`.
NoEvents_typo(events) == ~(Len(events) >= 0)

NoEvents(events) == ~(Len(events) > 0)

NodeIsAbsent(node_address, participant1, participant2) ==
    node_address \notin {participant1, participant2}

PaymentChannel(tn, channel_unique_id, ledger) ==
    IF NotUint256(channel_unique_id.channel_id)
    THEN [outcome |-> Raise("ValueError", InvalidIdMessage), calls |-> <<>>]
    ELSE
      LET filter_args == get_filter_args_for_specific_event_from_channel(
                             tn.address, channel_unique_id.channel_id, "ChannelOpened")
          events == getLogs(ledger, filter_args)
          calls == << [call |-> "getLogs", event |-> "ChannelOpened"] >>
      IN
      IF NoEvents(events)
      THEN [outcome |-> Raise("ValueError", NonExistingMessage), calls |-> calls]
      ELSE IF Len(events) = 0   \* events[-1] of an empty list
      THEN [outcome |-> Raise("IndexError", "list index out of range"), calls |-> calls]
      ELSE
        LET event == decode_event(events[Len(events)])
            participant1 == decode_hex(event.args.participant1)
            participant2 == decode_hex(event.args.participant2)
            labels == Canonical(tn.node_address, participant1, participant2)
        IN
        IF NodeIsAbsent(tn.node_address, participant1, participant2)
        THEN [outcome |-> Raise("ValueError", NotParticipantMessage), calls |-> calls]
        ELSE [outcome |-> Return([channel_unique_id       |-> channel_unique_id,
                                  channel_operations_lock |-> RLockNew,
                                  participant1            |-> labels[1],
                                  participant2            |-> labels[2],
                                  token_network           |-> tn]),
              calls |-> calls]

----------------------------------------------------------------------------
(* Properties and queries of a constructed PaymentChannel *)

channel_identifier(channel) == channel.channel_unique_id.channel_id

\* A faulty variant of settle_timeout: the first matching entry is read, not the last.
settle_timeout_first(channel, ledger) ==
    LET filter_args == get_filter_args_for_specific_event_from_channel(
                           channel.token_network.address, channel_identifier(channel),
                           "ChannelOpened")
        events == getLogs(ledger, filter_args)
        calls == << [call |-> "getLogs", event |-> "ChannelOpened"] >>
    IN
    IF ~(Len(events) > 0)
    THEN [outcome |-> Raise("AssertionError", "No matching ChannelOpen event found."),
          calls |-> calls]
    ELSE [outcome |-> Return(decode_event(events[1]).args.settle_timeout),
          calls |-> calls]

settle_timeout(channel, ledger) ==
    LET filter_args == get_filter_args_for_specific_event_from_channel(
                           channel.token_network.address, channel_identifier(channel),
                           "ChannelOpened")
        events == getLogs(ledger, filter_args)
        calls == << [call |-> "getLogs", event |-> "ChannelOpened"] >>
    IN
    IF ~(Len(events) > 0)
    THEN [outcome |-> Raise("AssertionError", "No matching ChannelOpen event found."),
          calls |-> calls]
    ELSE [outcome |-> Return(decode_event(events[Len(events)]).args.settle_timeout),
          calls |-> calls]

\* A faulty variant of close_block_number: the number of matching entries is not asserted.
close_block_number_unasserted(channel, ledger) ==
    LET filter_args == get_filter_args_for_specific_event_from_channel(
                           channel.token_network.address, channel_identifier(channel),
                           "ChannelClosed")
        events == getLogs(ledger, filter_args)
        calls == << [call |-> "getLogs", event |-> "ChannelClosed"] >>
    IN
    IF Len(events) = 0
    THEN [outcome |-> ReturnNone, calls |-> calls]
    ELSE [outcome |-> Return(decode_event(events[1]).blockNumber), calls |-> calls]

close_block_number(channel, ledger) ==
    LET filter_args == get_filter_args_for_specific_event_from_channel(
                           channel.token_network.address, channel_identifier(channel),
                           "ChannelClosed")
        events == getLogs(ledger, filter_args)
        calls == << [call |-> "getLogs", event |-> "ChannelClosed"] >>
    IN
    IF Len(events) = 0
    THEN [outcome |-> ReturnNone, calls |-> calls]
    ELSE IF ~(Len(events) = 1)
    THEN [outcome |-> Raise("AssertionError", ""), calls |-> calls]
    ELSE [outcome |-> Return(decode_event(events[1]).blockNumber), calls |-> calls]

\* client.new_filter: the subscription handle, holding what it was built from.
new_filter(contract_address, topics, from_block, to_block) ==
    [address   |-> contract_address,
     topics    |-> topics,
     fromBlock |-> from_block,
     toBlock   |-> to_block]

\* A faulty variant of all_events_filter: the channel id is formatted without padding.
all_events_filter_unpadded(channel, from_block, to_block) ==
    LET channel_topics == << <<>>, DigitsOfInt(channel_identifier(channel), 16, 1) >>
        channel_filter == new_filter(channel.token_network.address, channel_topics,
                                     from_block, to_block)
    IN  [outcome |-> Return(channel_filter),
         calls |-> << [call |-> "new_filter", event |-> ""] >>]

all_events_filter(channel, from_block, to_block) ==
    LET channel_topics == << <<>>, Format064x(channel_identifier(channel)) >>
        channel_filter == new_filter(channel.token_network.address, channel_topics,
                                     from_block, to_block)
    IN  [outcome |-> Return(channel_filter),
         calls |-> << [call |-> "new_filter", event |-> ""] >>]

----------------------------------------------------------------------------
(* The collaborator's current-state queries, answered from the ledger *)

\* The entries of the token network's contract of one kind for one channel id.
EntriesOfKind(ledger, kind, id) ==
    SelectSeq(ledger, LAMBDA e : /\ e.address = token_network.address
                                 /\ e.event = kind
                                 /\ e.channel_identifier = id)

\* The lifecycle state the ledger holds for a channel id: Open, then Closed,
\* then Settled.
LifecycleState(ledger, id) ==
    IF EntriesOfKind(ledger, "ChannelSettled", id) # <<>> THEN "Settled"
    ELSE IF EntriesOfKind(ledger, "ChannelClosed", id) # <<>> THEN "Closed"
    ELSE "Open"

\* The total deposit the ledger holds for a participant of a channel.
TotalDeposit(ledger, id, participant) ==
    LET deposits == SelectSeq(EntriesOfKind(ledger, "ChannelNewDeposit", id),
                              LAMBDA e : decode_hex(e.args.participant) = participant)
    IN  IF deposits = <<>> THEN 0 ELSE deposits[Len(deposits)].args.total_deposit

tn_detail(participant1, participant2, channel_unique_id, ledger) ==
    [state            |-> LifecycleState(ledger, channel_unique_id.channel_id),
     our_deposit      |-> TotalDeposit(ledger, channel_unique_id.channel_id, participant1),
     partner_deposit  |-> TotalDeposit(ledger, channel_unique_id.channel_id, participant2)]

channel_is_opened(participant1, participant2, channel_unique_id, ledger) ==
    LifecycleState(ledger, channel_unique_id.channel_id) = "Open"

channel_is_closed(participant1, participant2, channel_unique_id, ledger) ==
    LifecycleState(ledger, channel_unique_id.channel_id) = "Closed"

channel_is_settled(participant1, participant2, channel_unique_id, ledger) ==
    LifecycleState(ledger, channel_unique_id.channel_id) = "Settled"

\* The closer of the channel as bytes, or None while nobody has closed it.
tn_closing_address(participant1, participant2, channel_unique_id, ledger) ==
    LET closes == EntriesOfKind(ledger, "ChannelClosed", channel_unique_id.channel_id)
    IN  IF closes = <<>> THEN <<>> ELSE decode_hex(closes[1].args.closing_participant)

tn_can_transfer(participant1, participant2, channel_unique_id, ledger) ==
    /\ channel_is_opened(participant1, participant2, channel_unique_id, ledger)
    /\ TotalDeposit(ledger, channel_unique_id.channel_id, participant1) > 0

----------------------------------------------------------------------------
(* The delegated queries of a PaymentChannel *)

\* The call a delegated query hands to the collaborator.
StateCall(name, channel) ==
    [call |-> name, participant1 |-> channel.participant1,
     participant2 |-> channel.participant2,
     channel_unique_id |-> channel.channel_unique_id]

detail(channel, ledger) ==
    [outcome |-> Return(tn_detail(channel.participant1, channel.participant2,
                                  channel.channel_unique_id, ledger)),
     calls |-> << StateCall("detail", channel) >>]

opened(channel, ledger) ==
    [outcome |-> Return(channel_is_opened(channel.participant1, channel.participant2,
                                          channel.channel_unique_id, ledger)),
     calls |-> << StateCall("channel_is_opened", channel) >>]

closed(channel, ledger) ==
    [outcome |-> Return(channel_is_closed(channel.participant1, channel.participant2,
                                          channel.channel_unique_id, ledger)),
     calls |-> << StateCall("channel_is_closed", channel) >>]

settled(channel, ledger) ==
    [outcome |-> Return(channel_is_settled(channel.participant1, channel.participant2,
                                           channel.channel_unique_id, ledger)),
     calls |-> << StateCall("channel_is_settled", channel) >>]

closing_address(channel, ledger) ==
    [outcome |-> Return(tn_closing_address(channel.participant1, channel.participant2,
                                           channel.channel_unique_id, ledger)),
     calls |-> << StateCall("closing_address", channel) >>]

can_transfer(channel, ledger) ==
    [outcome |-> Return(tn_can_transfer(channel.participant1, channel.participant2,
                                        channel.channel_unique_id, ledger)),
     calls |-> << StateCall("can_transfer", channel) >>]

Queries ==
    {"detail", "settle_timeout", "close_block_number", "opened", "closed", "settled",
     "closing_address", "can_transfer"}

\* The result of a query of a channel against a ledger.
QueryResult(query, channel, ledger) ==
    CASE query = "detail"             -> detail(channel, ledger)
      [] query = "settle_timeout"     -> settle_timeout(channel, ledger)
      [] query = "close_block_number" -> close_block_number(channel, ledger)
      [] query = "opened"             -> opened(channel, ledger)
      [] query = "closed"             -> closed(channel, ledger)
      [] query = "settled"            -> settled(channel, ledger)
      [] query = "closing_address"    -> closing_address(channel, ledger)
      [] query = "can_transfer"       -> can_transfer(channel, ledger)

----------------------------------------------------------------------------
(* lock_or_raise: the scope holding the collaborator's lock of the partner *)

\* A faulty variant of lock_or_raise: the lock is selected by channel id, not by partner.
lock_or_raise_by_channel(channel) == channel.channel_unique_id.channel_id

\* The registry key lock_or_raise selects.
lock_or_raise(channel) == channel.participant2

\* The registry creates a lock the first time a key is looked up.
Lookup(registry, key) == IF key \in DOMAIN registry THEN registry[key] ELSE RLockNew

Store(registry, key, lock) ==
    [k \in DOMAIN registry \cup {key} |-> IF k = key THEN lock ELSE registry[k]]

\* A reentrant lock: free, or held `count` times by its owner.
RLockCanAcquire(lock, c) == lock.owner \in {0, c}

RLockAcquire(lock, c) == [owner |-> c, count |-> lock.count + 1]

RLockRelease(lock) ==
    IF lock.count = 1 THEN RLockNew ELSE [lock EXCEPT !.count = @ - 1]

----------------------------------------------------------------------------
(* The mutating operations: what each hands to the collaborator *)

set_total_deposit(channel, args) ==
    [call |-> "set_total_deposit", channel_unique_id |-> channel.channel_unique_id,
     partner |-> channel.participant2, args |-> args]

close(channel, args) ==
    [call |-> "close", channel_unique_id |-> channel.channel_unique_id,
     partner |-> channel.participant2, args |-> args]

update_transfer(channel, args) ==
    [call |-> "update_transfer", channel_unique_id |-> channel.channel_unique_id,
     partner |-> channel.participant2, args |-> args]

unlock(channel, args) ==
    [call |-> "unlock", channel_unique_id |-> channel.channel_unique_id,
     partner |-> channel.participant2, args |-> args]

settle(channel, args) ==
    [call |-> "settle", channel_unique_id |-> channel.channel_unique_id,
     partner |-> channel.participant2, args |-> args]

MutatingOps == {"set_total_deposit", "close", "update_transfer", "unlock", "settle"}

Delegate(op, channel, args) ==
    CASE op = "set_total_deposit" -> set_total_deposit(channel, args)
      [] op = "close"             -> close(channel, args)
      [] op = "update_transfer"   -> update_transfer(channel, args)
      [] op = "unlock"            -> unlock(channel, args)
      [] op = "settle"            -> settle(channel, args)

----------------------------------------------------------------------------
(* State, inputs and actions *)

Callers == 1..NumCallers
Slots == 1..3

Id7 == PyInt(0, 7)
Id8 == PyInt(0, 8)
IdMax == UINT256_MAX

UniqueId(id) == [token_address |-> "token", channel_id |-> id]

\* Channel ids a constructor is called with: -1, 7, 2^256 - 1, 2^256.
CtorIds == {PyInt(0, -1), Id7, IdMax, PyInt(1, 0)}

Opened(address, id, p1, p2, timeout) ==
    [address |-> address, event |-> "ChannelOpened", channel_identifier |-> id,
     args |-> [participant1 |-> p1, participant2 |-> p2, settle_timeout |-> timeout]]

Closed(address, id, closer) ==
    [address |-> address, event |-> "ChannelClosed", channel_identifier |-> id,
     args |-> [closing_participant |-> closer]]

Settled(address, id) ==
    [address |-> address, event |-> "ChannelSettled", channel_identifier |-> id,
     args |-> [participant1_amount |-> 0, participant2_amount |-> 0]]

Deposit(address, id, participant, total_deposit) ==
    [address |-> address, event |-> "ChannelNewDeposit", channel_identifier |-> id,
     args |-> [participant |-> participant, total_deposit |-> total_deposit]]

AtBlock(body, blockNumber) ==
    [address            |-> body.address,
     event              |-> body.event,
     channel_identifier |-> body.channel_identifier,
     args               |-> body.args,
     blockNumber        |-> blockNumber]

ParticipantPairs ==
    {<<HexAA, HexBB>>, <<HexBB, HexAA>>, <<HexAA, HexCC>>, <<HexBB, HexBB>>}

\* What the ledger may append while channels are being resolved.
ResolveEvents ==
    {Opened("token_network", Id7, pp[1], pp[2], 50) : pp \in ParticipantPairs}
    \cup {Opened("token_network", IdMax, HexBB, HexCC, 50),
          Opened("other_contract", Id7, HexBB, HexAA, 50),
          Closed("token_network", Id7, HexBB)}

\* What the ledger may append during the lifetime of a channel resolved from
\* Opened [0xAA, 0xBB]: a reopening with the participants in the other order, one
\* with another counterparty, a deposit of the node, a close and a settlement.
LifetimeEvents(id) ==
    {Opened("token_network", id, HexBB, HexAA, 500),
     Opened("token_network", id, HexBB, HexCC, 50),
     Deposit("token_network", id, HexBB, 10),
     Closed("token_network", id, HexAA),
     Settled("token_network", id)}

\* What the ledger may append while a resolved channel is being queried.
QueryEvents ==
    {Opened("token_network", Id7, HexAA, HexBB, 500),
     Opened("token_network", Id7, HexBB, HexCC, 50),
     Opened("token_network", IdMax, HexBB, HexCC, 500),
     Opened("other_contract", Id7, HexBB, HexAA, 500),
     Closed("token_network", Id7, HexBB),
     Closed("token_network", IdMax, HexCC),
     Closed("other_contract", Id7, HexAA),
     Settled("token_network", Id7),
     Settled("token_network", IdMax)}

LastBlock(ledger) == IF Len(ledger) = 0 THEN 999 ELSE ledger[Len(ledger)].blockNumber

NoOp == [op |-> "none", slot |-> 0, args |-> <<>>,
         outcome |-> ReturnNone, calls |-> <<>>]

Idle(c) == waiting[c] = <<>> /\ inflight[c] = <<>>

\* The ledger appends an entry.
AppendEvent(body, blockNumber) ==
    /\ Len(log) < MaxLog
    /\ log' = Append(log, AtBlock(body, blockNumber))
    /\ UNCHANGED <<channels, channel_operations_lock, scopes, waiting, inflight, lastOp>>

\* PaymentChannel(token_network, channel_unique_id), the result bound to a slot
\* when construction succeeds.
Construct(c, slot, id) ==
    LET r == PaymentChannel(token_network, UniqueId(id), log)
    IN  /\ Idle(c)
        /\ channels' = IF r.outcome.exc = ""
                       THEN [channels EXCEPT ![slot] = r.outcome.value]
                       ELSE channels
        /\ lastOp' = [op |-> "__init__", slot |-> slot, args |-> <<id>>,
                      outcome |-> r.outcome, calls |-> r.calls]
        /\ UNCHANGED <<log, channel_operations_lock, scopes, waiting, inflight>>

\* A faulty variant of Query: a query asked twice in a row returns what it
\* returned the first time.
Query_cached(c, slot, op, r) ==
    /\ Idle(c)
    /\ lastOp' = IF lastOp.op = op /\ lastOp.slot = slot
                 THEN lastOp
                 ELSE [op |-> op, slot |-> slot, args |-> <<>>,
                       outcome |-> r.outcome, calls |-> r.calls]
    /\ UNCHANGED <<log, channels, channel_operations_lock, scopes, waiting, inflight>>

\* A faulty variant of Query: the query resolves the participants again.
Query_refreshing(c, slot, op, r) ==
    /\ Idle(c)
    /\ lastOp' = [op |-> op, slot |-> slot, args |-> <<>>,
                  outcome |-> r.outcome, calls |-> r.calls]
    /\ LET again == PaymentChannel(token_network, channels[slot][1].channel_unique_id, log)
       IN  channels' = IF again.outcome.exc = ""
                       THEN [channels EXCEPT ![slot] = again.outcome.value]
                       ELSE channels
    /\ UNCHANGED <<log, channel_operations_lock, scopes, waiting, inflight>>

Query(c, slot, op, r) ==
    /\ Idle(c)
    /\ lastOp' = [op |-> op, slot |-> slot, args |-> <<>>,
                  outcome |-> r.outcome, calls |-> r.calls]
    /\ UNCHANGED <<log, channels, channel_operations_lock, scopes, waiting, inflight>>

\* A query method called and returning.
Ask(c, slot, query) ==
    /\ channels[slot] # <<>>
    /\ Query(c, slot, query, QueryResult(query, channels[slot][1], log))

SettleTimeout(c, slot) ==
    /\ channels[slot] # <<>>
    /\ Query(c, slot, "settle_timeout", settle_timeout(channels[slot][1], log))

CloseBlockNumber(c, slot) ==
    /\ channels[slot] # <<>>
    /\ Query(c, slot, "close_block_number", close_block_number(channels[slot][1], log))

AllEventsFilter(c, slot) ==
    /\ channels[slot] # <<>>
    /\ Query(c, slot, "all_events_filter", all_events_filter(channels[slot][1], <<>>, <<>>))

\* `with channel.lock_or_raise():` looks the partner's lock up and blocks on it.
EnterRequest(c, slot, depth) ==
    /\ Idle(c)
    /\ channels[slot] # <<>>
    /\ Len(scopes[c]) < depth
    /\ LET key == lock_or_raise(channels[slot][1])
       IN  /\ waiting' = [waiting EXCEPT ![c] = <<[slot |-> slot, key |-> key]>>]
           /\ channel_operations_lock' =
                  Store(channel_operations_lock, key, Lookup(channel_operations_lock, key))
    /\ UNCHANGED <<log, channels, scopes, inflight, lastOp>>

\* A faulty variant of EnterAcquire: a caller that already holds the lock blocks on it too.
EnterAcquire_nonreentrant(c) ==
    /\ waiting[c] # <<>>
    /\ LET key == waiting[c][1].key
           lock == channel_operations_lock[key]
       IN  /\ lock.owner = 0
           /\ channel_operations_lock' =
                  [channel_operations_lock EXCEPT ![key] = RLockAcquire(lock, c)]
    /\ scopes' = [scopes EXCEPT ![c] = Append(@, waiting[c][1])]
    /\ waiting' = [waiting EXCEPT ![c] = <<>>]
    /\ UNCHANGED <<log, channels, inflight, lastOp>>

\* The blocked caller gets the lock and is inside the scope.
EnterAcquire(c) ==
    /\ waiting[c] # <<>>
    /\ LET key == waiting[c][1].key
           lock == channel_operations_lock[key]
       IN  /\ RLockCanAcquire(lock, c)
           /\ channel_operations_lock' =
                  [channel_operations_lock EXCEPT ![key] = RLockAcquire(lock, c)]
    /\ scopes' = [scopes EXCEPT ![c] = Append(@, waiting[c][1])]
    /\ waiting' = [waiting EXCEPT ![c] = <<>>]
    /\ UNCHANGED <<log, channels, inflight, lastOp>>

\* The caller leaves its innermost scope, by falling out of it or by an exception.
ExitScope(c) ==
    /\ Idle(c)
    /\ scopes[c] # <<>>
    /\ LET key == scopes[c][Len(scopes[c])].key
       IN  channel_operations_lock' =
               [channel_operations_lock EXCEPT ![key] = RLockRelease(@)]
    /\ scopes' = [scopes EXCEPT ![c] = SubSeq(@, 1, Len(@) - 1)]
    /\ UNCHANGED <<log, channels, waiting, inflight, lastOp>>

\* A mutating operation hands its call to the collaborator, which submits it.
Call(c, slot, op) ==
    /\ Idle(c)
    /\ channels[slot] # <<>>
    /\ inflight' = [inflight EXCEPT
                      ![c] = <<[slot |-> slot, call |-> Delegate(op, channels[slot][1], "args")]>>]
    /\ UNCHANGED <<log, channels, channel_operations_lock, scopes, waiting, lastOp>>

\* The collaborator's call ends: accepted, or rejected by the ledger.
CallReturns(c, accepted) ==
    /\ inflight[c] # <<>>
    /\ lastOp' = [op      |-> inflight[c][1].call.call,
                  slot    |-> inflight[c][1].slot,
                  args    |-> <<inflight[c][1].call.args>>,
                  outcome |-> IF accepted THEN ReturnNone
                              ELSE Raise("LedgerRejected", "reason"),
                  calls   |-> <<inflight[c][1].call>>]
    /\ inflight' = [inflight EXCEPT ![c] = <<>>]
    /\ UNCHANGED <<log, channels, channel_operations_lock, scopes, waiting>>

\* The call in flight of a caller is the call of a mutating operation.
IsMutating(c) == inflight[c] # <<>> /\ "query" \notin DOMAIN inflight[c][1]

\* The call in flight of a caller is the call of a query.
IsQuerying(c) == inflight[c] # <<>> /\ "query" \in DOMAIN inflight[c][1]

\* A faulty variant of QueryBegins: the query enters lock_or_raise first.
QueryBegins_locked(c, slot, query) ==
    /\ Idle(c)
    /\ channels[slot] # <<>>
    /\ RLockCanAcquire(Lookup(channel_operations_lock, lock_or_raise(channels[slot][1])), c)
    /\ inflight' = [inflight EXCEPT ![c] = <<[slot |-> slot, query |-> query]>>]
    /\ UNCHANGED <<log, channels, channel_operations_lock, scopes, waiting, lastOp>>

\* A query hands its call to the collaborator, which reads the ledger.
QueryBegins(c, slot, query) ==
    /\ Idle(c)
    /\ channels[slot] # <<>>
    /\ inflight' = [inflight EXCEPT ![c] = <<[slot |-> slot, query |-> query]>>]
    /\ UNCHANGED <<log, channels, channel_operations_lock, scopes, waiting, lastOp>>

\* The collaborator's read ends and the query returns what the ledger holds.
QueryEnds(c) ==
    /\ IsQuerying(c)
    /\ LET r == QueryResult(inflight[c][1].query, channels[inflight[c][1].slot][1], log)
       IN  lastOp' = [op |-> inflight[c][1].query, slot |-> inflight[c][1].slot,
                      args |-> <<>>, outcome |-> r.outcome, calls |-> r.calls]
    /\ inflight' = [inflight EXCEPT ![c] = <<>>]
    /\ UNCHANGED <<log, channels, channel_operations_lock, scopes, waiting>>

\* What the collaborator's call may end with: a return value, or a rejection by
\* the ledger with its reason.
Responses ==
    {ReturnNone, Return("transaction"),
     Raise("LedgerRejected", "insufficient funds"),
     Raise("LedgerRejected", "channel is not open")}

\* A faulty variant of MutatingOutcome: a rejection is reported with a reason of
\* the operation's own.
MutatingOutcome_rewrapped(response) ==
    IF response.exc = "" THEN ReturnNone ELSE Raise("LedgerRejected", "call failed")

\* What a mutating operation ends with: its body is the one collaborator call,
\* outside any try and without a return.
MutatingOutcome(response) ==
    IF response.exc = "" THEN ReturnNone ELSE response

\* The collaborator's call ends with a response and the mutating operation that
\* made it ends too.
CallEnds(c, response) ==
    /\ inflight[c] # <<>>
    /\ lastOp' = [op        |-> inflight[c][1].call.call,
                  slot      |-> inflight[c][1].slot,
                  args      |-> <<inflight[c][1].call.args>>,
                  outcome   |-> MutatingOutcome(response),
                  calls     |-> <<inflight[c][1].call>>,
                  responses |-> <<response>>]
    /\ inflight' = [inflight EXCEPT ![c] = <<>>]
    /\ UNCHANGED <<log, channels, channel_operations_lock, scopes, waiting>>

\* A faulty variant of ExitScopeOnFailure: the exception leaves the scope with
\* the lock still acquired.
ExitScopeOnFailure_leaky(c) ==
    /\ inflight[c] # <<>>
    /\ scopes[c] # <<>>
    /\ lastOp' = [op      |-> inflight[c][1].call.call,
                  slot    |-> inflight[c][1].slot,
                  args    |-> <<inflight[c][1].call.args>>,
                  outcome |-> Raise("LedgerRejected", "reason"),
                  calls   |-> <<inflight[c][1].call>>]
    /\ inflight' = [inflight EXCEPT ![c] = <<>>]
    /\ scopes' = [scopes EXCEPT ![c] = SubSeq(@, 1, Len(@) - 1)]
    /\ UNCHANGED <<log, channels, channel_operations_lock, waiting>>

\* The call made inside a scope is rejected and its exception leaves the
\* caller's innermost scope: the `with` of lock_or_raise releases the lock on
\* the way out.
ExitScopeOnFailure(c) ==
    /\ inflight[c] # <<>>
    /\ scopes[c] # <<>>
    /\ lastOp' = [op      |-> inflight[c][1].call.call,
                  slot    |-> inflight[c][1].slot,
                  args    |-> <<inflight[c][1].call.args>>,
                  outcome |-> Raise("LedgerRejected", "reason"),
                  calls   |-> <<inflight[c][1].call>>]
    /\ inflight' = [inflight EXCEPT ![c] = <<>>]
    /\ LET key == scopes[c][Len(scopes[c])].key
       IN  channel_operations_lock' =
               [channel_operations_lock EXCEPT ![key] = RLockRelease(@)]
    /\ scopes' = [scopes EXCEPT ![c] = SubSeq(@, 1, Len(@) - 1)]
    /\ UNCHANGED <<log, channels, waiting>>

\* Leaving nested scopes from the innermost outwards, each giving back its
\* acquisition.
RECURSIVE ReleaseAll(_, _)
ReleaseAll(registry, held) ==
    IF held = <<>> THEN registry
    ELSE ReleaseAll([registry EXCEPT ![held[Len(held)].key] = RLockRelease(@)],
                    SubSeq(held, 1, Len(held) - 1))

\* A faulty variant of Unwind: only the innermost scope gives its acquisition back.
Unwind_innermost(c, response) ==
    /\ IsMutating(c)
    /\ scopes[c] # <<>>
    /\ lastOp' = [op        |-> inflight[c][1].call.call,
                  slot      |-> inflight[c][1].slot,
                  args      |-> <<inflight[c][1].call.args>>,
                  outcome   |-> MutatingOutcome(response),
                  calls     |-> <<inflight[c][1].call>>,
                  responses |-> <<response>>]
    /\ inflight' = [inflight EXCEPT ![c] = <<>>]
    /\ channel_operations_lock' =
           ReleaseAll(channel_operations_lock, SubSeq(scopes[c], Len(scopes[c]), Len(scopes[c])))
    /\ scopes' = [scopes EXCEPT ![c] = <<>>]
    /\ UNCHANGED <<log, channels, waiting>>

\* The call of a scoped mutating operation ends, by returning or by raising,
\* and control leaves every lock_or_raise scope the operation was wrapped in:
\* nothing between the end of the call and the last exit can block.
Unwind(c, response) ==
    /\ IsMutating(c)
    /\ scopes[c] # <<>>
    /\ lastOp' = [op        |-> inflight[c][1].call.call,
                  slot      |-> inflight[c][1].slot,
                  args      |-> <<inflight[c][1].call.args>>,
                  outcome   |-> MutatingOutcome(response),
                  calls     |-> <<inflight[c][1].call>>,
                  responses |-> <<response>>]
    /\ inflight' = [inflight EXCEPT ![c] = <<>>]
    /\ channel_operations_lock' = ReleaseAll(channel_operations_lock, scopes[c])
    /\ scopes' = [scopes EXCEPT ![c] = <<>>]
    /\ UNCHANGED <<log, channels, waiting>>

----------------------------------------------------------------------------
(* Specifications *)

NoCallers ==
    /\ channel_operations_lock = <<>>
    /\ scopes = [c \in Callers |-> <<>>]
    /\ waiting = [c \in Callers |-> <<>>]
    /\ inflight = [c \in Callers |-> <<>>]
    /\ lastOp = NoOp

\* Resolution: the ledger grows from empty, one entry per block, while a caller
\* constructs channels.
InitResolve ==
    /\ log = <<>>
    /\ channels = [s \in Slots |-> <<>>]
    /\ NoCallers

NextResolve ==
    \/ \E body \in ResolveEvents : AppendEvent(body, LastBlock(log) + 1)
    \/ \E id \in CtorIds : Construct(1, 1, id)

SpecResolve == InitResolve /\ [][NextResolve]_vars

\* Queries: a channel resolved from its Opened entry, queried while the ledger grows.
QueryLog(id) ==
    IF id = Id7 THEN << AtBlock(Opened("token_network", Id7, HexAA, HexBB, 50), 999) >>
    ELSE << AtBlock(Opened("token_network", IdMax, HexBB, HexCC, 50), 999) >>

InitQuery ==
    /\ \E id \in {Id7, IdMax} :
          /\ log = QueryLog(id)
          /\ channels = [s \in Slots |->
                           IF s = 1
                           THEN PaymentChannel(token_network, UniqueId(id), QueryLog(id)).outcome.value
                           ELSE <<>>]
    /\ NoCallers

NextQuery ==
    \/ \E body \in QueryEvents, b \in {LastBlock(log), LastBlock(log) + 1} :
          AppendEvent(body, b)
    \/ SettleTimeout(1, 1)
    \/ CloseBlockNumber(1, 1)
    \/ AllEventsFilter(1, 1)

SpecQuery == InitQuery /\ [][NextQuery]_vars

\* Three resolved channels, two of them with the same partner, used by
\* concurrent callers.
LockIds == <<Id7, Id8, IdMax>>

LockLog ==
    << AtBlock(Opened("token_network", Id7, HexAA, HexBB, 50), 1000),
       AtBlock(Opened("token_network", Id8, HexBB, HexAA, 50), 1001),
       AtBlock(Opened("token_network", IdMax, HexBB, HexCC, 50), 1002) >>

InitLock ==
    /\ log = LockLog
    /\ channels = [s \in Slots |->
                     PaymentChannel(token_network, UniqueId(LockIds[s]), LockLog).outcome.value]
    /\ NoCallers

\* Locking: callers entering and leaving lock_or_raise scopes, nested up to MaxDepth.
NextLock ==
    \/ \E c \in Callers, slot \in Slots : EnterRequest(c, slot, MaxDepth)
    \/ \E c \in Callers : EnterAcquire(c)
    \/ \E c \in Callers : ExitScope(c)

SpecLock == InitLock /\ [][NextLock]_vars

\* Calls: callers running close and update_transfer, inside a lock_or_raise
\* scope or not.
NextCalls ==
    \/ \E c \in Callers, slot \in Slots : EnterRequest(c, slot, 1)
    \/ \E c \in Callers : EnterAcquire(c)
    \/ \E c \in Callers : ExitScope(c)
    \/ \E c \in Callers, slot \in Slots, op \in {"close", "update_transfer"} : Call(c, slot, op)
    \/ \E c \in Callers, accepted \in BOOLEAN : CallReturns(c, accepted)

SpecCalls == InitLock /\ [][NextCalls]_vars

\* The ledger moves a channel forward: Open to Closed, Closed to Settled.
LifecycleStep(ledger, id) ==
    CASE LifecycleState(ledger, id) = "Open"    -> {Closed("token_network", id, HexBB)}
      [] LifecycleState(ledger, id) = "Closed"  -> {Settled("token_network", id)}
      [] LifecycleState(ledger, id) = "Settled" -> {}

\* Dispatch: the ledger opens channel 7 with the local node, to [0xAA, 0xBB] or
\* to [0xBB, 0xBB], and moves it through its lifecycle, while one caller resolves
\* it and runs its five mutating operations.
NextDispatch ==
    \/ \E pp \in {<<HexAA, HexBB>>, <<HexBB, HexBB>>} :
          log = <<>> /\ AppendEvent(Opened("token_network", Id7, pp[1], pp[2], 50), 1000)
    \/ \E body \in LifecycleStep(log, Id7) :
          log # <<>> /\ AppendEvent(body, LastBlock(log) + 1)
    \/ Construct(1, 1, Id7)
    \/ \E op \in MutatingOps : Call(1, 1, op)
    \/ \E response \in Responses : CallEnds(1, response)

SpecDispatch == InitResolve /\ [][NextDispatch]_vars

\* The scopes a caller is inside are all of this channel.
InsideOnly(c, slot) == \A i \in 1..Len(scopes[c]) : scopes[c][i].slot = slot

\* Scoped operations: every caller runs the mutating operations of a channel
\* inside lock_or_raise scopes of that channel, nested up to MaxDepth; a
\* rejected call is caught inside the scope or leaves it.
NextScoped ==
    \/ \E c \in Callers, slot \in Slots :
          InsideOnly(c, slot) /\ EnterRequest(c, slot, MaxDepth)
    \/ \E c \in Callers : EnterAcquire(c)
    \/ \E c \in Callers, slot \in Slots, op \in {"close", "settle"} :
          scopes[c] # <<>> /\ InsideOnly(c, slot) /\ Call(c, slot, op)
    \/ \E c \in Callers, accepted \in BOOLEAN : CallReturns(c, accepted)
    \/ \E c \in Callers : ExitScopeOnFailure(c)
    \/ \E c \in Callers : ExitScope(c)

SpecScoped == InitLock /\ [][NextScoped]_vars

\* Observation: caller 1 closes channel 7 inside lock_or_raise scopes while the
\* other callers query the three channels.
NextObserve ==
    \/ EnterRequest(1, 1, 1)
    \/ EnterAcquire(1)
    \/ ExitScope(1)
    \/ scopes[1] # <<>> /\ Call(1, 1, "close")
    \/ \E accepted \in BOOLEAN : IsMutating(1) /\ CallReturns(1, accepted)
    \/ \E c \in Callers \ {1}, slot \in Slots, query \in Queries : QueryBegins(c, slot, query)
    \/ \E c \in Callers \ {1} : QueryEnds(c)

SpecObserve == InitLock /\ [][NextObserve]_vars

\* Lifetime: everything one caller can do with a resolved channel, while the
\* ledger appends further entries for its id.
InitLifetime ==
    /\ log = QueryLog(Id7)
    /\ channels = [s \in Slots |->
                     IF s = 1
                     THEN PaymentChannel(token_network, UniqueId(Id7), QueryLog(Id7)).outcome.value
                     ELSE <<>>]
    /\ NoCallers

NextLifetime ==
    \/ \E body \in LifetimeEvents(Id7) : AppendEvent(body, LastBlock(log) + 1)
    \/ \E query \in Queries : Ask(1, 1, query)
    \/ AllEventsFilter(1, 1)
    \/ EnterRequest(1, 1, 1)
    \/ EnterAcquire(1)
    \/ ExitScope(1)
    \/ \E op \in MutatingOps : Call(1, 1, op)
    \/ \E response \in Responses : IsMutating(1) /\ CallEnds(1, response)

SpecLifetime == InitLifetime /\ [][NextLifetime]_vars

\* What the collaborator's settle call ends with.
SettleResponses == {ReturnNone, Raise("LedgerRejected", "channel is not open")}

\* Inside a scope a caller goes on: into a further scope of the same channel, or
\* to the mutating call.
Proceed(c) ==
    /\ scopes[c] # <<>>
    /\ \E slot \in Slots :
          /\ InsideOnly(c, slot)
          /\ EnterRequest(c, slot, MaxDepth) \/ Call(c, slot, "settle")

\* Scoped operations to completion: every caller runs settle() of some channel
\* wrapped in up to MaxDepth lock_or_raise scopes of that channel, one operation
\* after the other.
NextLive ==
    \/ \E c \in Callers, slot \in Slots : scopes[c] = <<>> /\ EnterRequest(c, slot, MaxDepth)
    \/ \E c \in Callers : EnterAcquire(c)
    \/ \E c \in Callers : Proceed(c)
    \/ \E c \in Callers, response \in SettleResponses : Unwind(c, response)

\* The lock is fair to its waiters, a caller inside a scope goes on, and every
\* collaborator call ends.
FairLive ==
    \A c \in Callers :
       /\ SF_vars(EnterAcquire(c))
       /\ WF_vars(Proceed(c))
       /\ WF_vars(\E response \in SettleResponses : Unwind(c, response))

SpecLive == InitLock /\ [][NextLive]_vars /\ FairLive

----------------------------------------------------------------------------
(* What the claims are stated in: the ledger's entries by their decoded fields *)

InvalidChannelID == Raise("ValueError", InvalidIdMessage)
ChannelNotFound == Raise("ValueError", NonExistingMessage)
NotAParticipant == Raise("ValueError", NotParticipantMessage)

\* Bytes to hex digits, the inverse of decode_hex.
encode_hex(bytes) ==
    [i \in 1..(2 * Len(bytes)) |->
        IF i % 2 = 1 THEN bytes[(i + 1) \div 2] \div 16 ELSE bytes[i \div 2] % 16]

NodeHex == encode_hex(token_network.node_address)

\* 0 <= id <= 2^256 - 1
IsUint256(id) == (id[1] = 0 /\ id[2] >= 0) \/ (id[1] = 1 /\ id[2] < 0)

\* The entries of this ledger program of one kind for one channel id, in ledger order.
EntriesOf(ledger, kind, id) ==
    SelectSeq(ledger, LAMBDA e : /\ e.address = token_network.address
                                 /\ e.event = kind
                                 /\ e.channel_identifier = id)

Last(seq) == seq[Len(seq)]

Constructed(id) == PaymentChannel(token_network, UniqueId(id), log)

\* The last operation was a construction with this id and the ledger has not
\* changed since.
JustConstructed(id) ==
    /\ lastOp.op = "__init__"
    /\ lastOp.args = <<id>>
    /\ lastOp.outcome = Constructed(id).outcome

\* C2: when the last Opened entry of a channel id names the local node,
\* construction succeeds, participant1 is the local node and participant2 is the
\* other participant of that entry, whichever position the node had in it.
C2_Thm ==
    /\ \A id \in CtorIds :
          LET openedEntries == EntriesOf(log, "ChannelOpened", id)
          IN  (/\ openedEntries # <<>>
               /\ NodeHex \in {Last(openedEntries).args.participant1, Last(openedEntries).args.participant2})
              => LET r == Constructed(id).outcome
                 IN  /\ r.exc = ""
                     /\ Len(r.value) = 1
                     /\ r.value[1].channel_unique_id = UniqueId(id)
                     /\ r.value[1].participant1 = token_network.node_address
                     /\ encode_hex(r.value[1].participant2) =
                            IF Last(openedEntries).args.participant1 = NodeHex
                            THEN Last(openedEntries).args.participant2
                            ELSE Last(openedEntries).args.participant1
    /\ (lastOp.op = "__init__" /\ lastOp.outcome.exc = "")
       => channels[lastOp.slot] = lastOp.outcome.value

\* C2 witness: channel 7, last Opened entry [0xAA, 0xBB], local node 0xBB:
\* constructed with participant1 = 0xBB and participant2 = 0xAA.
C2_Wit ==
    /\ JustConstructed(Id7)
    /\ EntriesOf(log, "ChannelOpened", Id7) # <<>>
    /\ Last(EntriesOf(log, "ChannelOpened", Id7)).args.participant1 = HexAA
    /\ Last(EntriesOf(log, "ChannelOpened", Id7)).args.participant2 = HexBB
    /\ Len(EntriesOf(log, "ChannelOpened", Id7)) > 1
    /\ channels[1] # <<>>
    /\ channels[1][1].participant1 = <<187>>
    /\ channels[1][1].participant2 = <<170>>

\* C3: for an in-range channel id with no Opened entry in the ledger,
\* construction raises the "non-existing" error and produces no channel.
C3_Thm ==
    /\ \A id \in CtorIds :
          (IsUint256(id) /\ EntriesOf(log, "ChannelOpened", id) = <<>>)
          => Constructed(id).outcome = ChannelNotFound
    /\ (lastOp.op = "__init__" /\ lastOp.outcome = ChannelNotFound)
       => (lastOp.outcome.value = <<>> /\ Len(lastOp.calls) = 1)

\* C3 witness: channel 2^256 - 1 was constructed against a ledger that holds
\* entries, none of them an Opened entry of this program for that id.
C3_Wit ==
    /\ JustConstructed(IdMax)
    /\ lastOp.outcome = ChannelNotFound
    /\ EntriesOf(log, "ChannelOpened", IdMax) = <<>>
    /\ Len(log) >= 2
    /\ channels[1] = <<>>

\* C4: when neither participant of the last Opened entry is the local node,
\* construction raises the "must be the node address" error and produces no channel.
C4_Thm ==
    \A id \in CtorIds :
       LET openedEntries == EntriesOf(log, "ChannelOpened", id)
       IN  (/\ openedEntries # <<>>
            /\ NodeHex \notin {Last(openedEntries).args.participant1, Last(openedEntries).args.participant2})
           => LET r == Constructed(id).outcome
              IN  r = NotAParticipant /\ r.value = <<>>

\* C4 witness: an earlier Opened entry names the node, the last one does not, and
\* the construction was refused.
C4_Wit ==
    /\ JustConstructed(Id7)
    /\ lastOp.outcome = NotAParticipant
    /\ Len(EntriesOf(log, "ChannelOpened", Id7)) > 1
    /\ NodeHex = EntriesOf(log, "ChannelOpened", Id7)[1].args.participant2
    /\ Last(EntriesOf(log, "ChannelOpened", Id7)).args.participant1 = HexAA
    /\ Last(EntriesOf(log, "ChannelOpened", Id7)).args.participant2 = HexCC

\* C5: a construction with a channel id below 0 or above 2^256 - 1 raises the
\* "not a uint256" error having made no ledger call, and changes neither the
\* lock registry nor any channel.
C5_Thm ==
    [][(/\ lastOp' # lastOp
        /\ lastOp'.op = "__init__"
        /\ ~IsUint256(lastOp'.args[1]))
       => (/\ lastOp'.outcome = InvalidChannelID
           /\ lastOp'.calls = <<>>
           /\ channel_operations_lock' = channel_operations_lock
           /\ channels' = channels
           /\ log' = log)]_vars

\* C5 witness: the id 2^256 was refused after channel 7 had been resolved.
C5_Wit ==
    /\ lastOp.op = "__init__"
    /\ lastOp.args = <<PyInt(1, 0)>>
    /\ lastOp.outcome = InvalidChannelID
    /\ lastOp.calls = <<>>
    /\ channels[1] # <<>>
    /\ Len(log) > 0

ProtocolInvariantViolation == "AssertionError"

\* The index of the most recent entry: the greatest block number, and among
\* equal block numbers the later entry.
MostRecent(entries) ==
    CHOOSE i \in 1..Len(entries) :
        \A j \in 1..Len(entries) :
            \/ entries[j].blockNumber < entries[i].blockNumber
            \/ (entries[j].blockNumber = entries[i].blockNumber /\ j <= i)

IdOf(slot) == channels[slot][1].channel_unique_id.channel_id

\* The last operation was this query of this channel and the ledger has not
\* changed since.
JustQueried(op, slot, r) ==
    /\ channels[slot] # <<>>
    /\ lastOp.op = op
    /\ lastOp.slot = slot
    /\ lastOp.outcome = r.outcome

\* C6: settle_timeout() returns the settle_timeout of the most recent Opened
\* entry, in ascending block order, that the ledger holds for the channel id at
\* the time of the call.
C6_Thm ==
    \A slot \in Slots :
       channels[slot] # <<>>
       => LET openedEntries == EntriesOf(log, "ChannelOpened", IdOf(slot))
          IN  /\ openedEntries # <<>>
              /\ settle_timeout(channels[slot][1], log).outcome =
                     Return(openedEntries[MostRecent(openedEntries)].args.settle_timeout)

\* C6 witness: three Opened entries for channel 7 with timeouts 50, 500, 50, the
\* last two appended after construction (the channel's partner is still 0xAA
\* while the last entry names 0xCC); settle_timeout() returned the last one's 50.
C6_Wit ==
    /\ JustQueried("settle_timeout", 1, settle_timeout(channels[1][1], log))
    /\ IdOf(1) = Id7
    /\ LET openedEntries == EntriesOf(log, "ChannelOpened", Id7)
       IN  /\ Len(openedEntries) = 3
           /\ openedEntries[2].args.settle_timeout = 500
           /\ openedEntries[3].args.settle_timeout = 50
           /\ openedEntries[3].args.participant2 = HexCC
           /\ openedEntries[2].blockNumber < openedEntries[3].blockNumber
    /\ channels[1][1].participant2 = <<170>>
    /\ lastOp.outcome = Return(50)

\* C7: close_block_number() returns None while the ledger holds no Closed entry
\* for the channel id, the block number of the entry when it holds exactly one,
\* and fails, returning nothing, when it holds two or more.
C7_Thm ==
    \A slot \in Slots :
       channels[slot] # <<>>
       => LET closedEntries == EntriesOf(log, "ChannelClosed", IdOf(slot))
              r == close_block_number(channels[slot][1], log).outcome
          IN  /\ Len(closedEntries) = 0 => r = ReturnNone
              /\ Len(closedEntries) = 1 => r = Return(closedEntries[1].blockNumber)
              /\ Len(closedEntries) >= 2 => (r.exc = ProtocolInvariantViolation /\ r.value = <<>>)

\* C7 witness: a close at block 1000, a second Closed entry for the same id, and
\* close_block_number() failed.
C7_Wit ==
    /\ JustQueried("close_block_number", 1, close_block_number(channels[1][1], log))
    /\ Len(EntriesOf(log, "ChannelClosed", IdOf(1))) = 2
    /\ EntriesOf(log, "ChannelClosed", IdOf(1))[1].blockNumber = 1000
    /\ lastOp.outcome.exc = ProtocolInvariantViolation

\* C8: the filter all_events_filter() builds with no block range leaves the
\* event topic unconstrained and constrains the channel-id topic to the 64 hex
\* digits of the id's 32-byte word: of this ledger program's entries it matches
\* exactly those with this channel id, of every kind.
C8_Thm ==
    \A slot \in Slots :
       channels[slot] # <<>>
       => LET filter == all_events_filter(channels[slot][1], <<>>, <<>>).outcome.value[1]
          IN  /\ filter.topics[1] = <<>>
              /\ filter.topics[2] = encode_hex(Uint256Word(IdOf(slot)))
              /\ filter.fromBlock = <<>>
              /\ filter.toBlock = <<>>
              /\ \A body \in QueryEvents :
                    FilterMatches(filter, AtBlock(body, 1000))
                    <=> (/\ body.address = token_network.address
                         /\ body.channel_identifier = IdOf(slot))
              /\ \A i \in 1..Len(log) :
                    FilterMatches(filter, log[i])
                    <=> (/\ log[i].address = token_network.address
                         /\ log[i].channel_identifier = IdOf(slot))

\* C8 witness: the filter of channel 2^256 - 1 (topic ff..ff) was built; the
\* ledger holds an Opened and a Closed entry it matches and an entry of another
\* channel id it does not.
C8_Wit ==
    /\ JustQueried("all_events_filter", 1, all_events_filter(channels[1][1], <<>>, <<>>))
    /\ IdOf(1) = IdMax
    /\ lastOp.outcome.value[1].topics[2] = [i \in 1..64 |-> 15]
    /\ \E i, j, k \in 1..Len(log) :
          /\ log[i].event = "ChannelOpened"
          /\ log[j].event = "ChannelClosed"
          /\ FilterMatches(lastOp.outcome.value[1], log[i])
          /\ FilterMatches(lastOp.outcome.value[1], log[j])
          /\ log[k].address = token_network.address
          /\ log[k].channel_identifier = Id7
          /\ ~FilterMatches(lastOp.outcome.value[1], log[k])

PartnerOf(slot) == channels[slot][1].participant2

\* The scopes a caller is inside whose channel has this partner.
ScopesOn(c, partner) == {i \in 1..Len(scopes[c]) : PartnerOf(scopes[c][i].slot) = partner}

Partners == {PartnerOf(slot) : slot \in Slots}

\* C1: the delegated collaborator calls of two callers for the same partner are
\* never in progress at the same time.
C1_Serialized ==
    \A c1, c2 \in Callers :
       (c1 # c2 /\ inflight[c1] # <<>> /\ inflight[c2] # <<>>)
       => inflight[c1][1].call.partner # inflight[c2][1].call.partner

\* C9: the lock of a lock_or_raise scope is the registry's lock of the channel's
\* participant2, so no two callers are at once inside scopes of channels with
\* the same partner, whatever the channel ids.
C9_Thm ==
    /\ \A c \in Callers : \A i \in 1..Len(scopes[c]) :
          /\ scopes[c][i].key = PartnerOf(scopes[c][i].slot)
          /\ scopes[c][i].key \in DOMAIN channel_operations_lock
          /\ channel_operations_lock[scopes[c][i].key].owner = c
    /\ \A c1, c2 \in Callers : \A partner \in Partners :
          (ScopesOn(c1, partner) # {} /\ ScopesOn(c2, partner) # {}) => c1 = c2

\* C9 witness: caller 1 is inside the scope of channel 7 (partner 0xAA) while
\* caller 2 is inside the scope of channel 2^256 - 1 (partner 0xCC) and blocked
\* entering the scope of channel 8, whose partner is 0xAA too.
C9_Wit ==
    /\ scopes[1] # <<>> /\ scopes[1][1].slot = 1
    /\ scopes[2] # <<>> /\ scopes[2][1].slot = 3
    /\ waiting[2] # <<>> /\ waiting[2][1].slot = 2
    /\ IdOf(1) # IdOf(2)
    /\ PartnerOf(1) = PartnerOf(2)
    /\ PartnerOf(1) # PartnerOf(3)
    /\ ~ENABLED EnterAcquire(2)

\* C10: the partner lock is reentrant.  A caller blocked on a lock it already
\* holds can enter; while a caller is inside n > 0 scopes of a partner it holds
\* the partner's lock n times and no other caller can enter; the lock is free
\* only when no caller is inside a scope of the partner.
C10_Thm ==
    /\ \A c \in Callers :
          (/\ waiting[c] # <<>>
           /\ channel_operations_lock[waiting[c][1].key].owner = c)
          => ENABLED EnterAcquire(c)
    /\ \A c \in Callers : \A partner \in Partners :
          ScopesOn(c, partner) # {}
          => /\ channel_operations_lock[partner] =
                    [owner |-> c, count |-> Cardinality(ScopesOn(c, partner))]
             /\ \A other \in Callers \ {c} :
                   (waiting[other] # <<>> /\ PartnerOf(waiting[other][1].slot) = partner)
                   => ~ENABLED EnterAcquire(other)
    /\ \A partner \in Partners :
          (\A c \in Callers : ScopesOn(c, partner) = {})
          => Lookup(channel_operations_lock, partner) = RLockNew

\* C10 witness: caller 1 is inside one scope of partner 0xAA, holding its lock
\* once, and about to enter a second; caller 2 waits for the same lock.
C10_Wit ==
    /\ Len(scopes[1]) = 1
    /\ waiting[1] # <<>>
    /\ PartnerOf(scopes[1][1].slot) = PartnerOf(waiting[1][1].slot)
    /\ channel_operations_lock[PartnerOf(waiting[1][1].slot)] = [owner |-> 1, count |-> 1]
    /\ waiting[2] # <<>>
    /\ PartnerOf(waiting[2][1].slot) = PartnerOf(waiting[1][1].slot)
    /\ ENABLED EnterAcquire(1)
    /\ ~ENABLED EnterAcquire(2)

\* C11: leaving a lock_or_raise scope, by falling out of it or by the exception
\* of a rejected call, gives back the one acquisition its entry made; when no
\* caller is inside a scope of a partner the partner's lock is held by nobody
\* and a caller waiting for it can acquire it.
C11_Thm ==
    /\ [](\A partner \in Partners :
            (\A c \in Callers : ScopesOn(c, partner) = {})
            => /\ Lookup(channel_operations_lock, partner) = RLockNew
               /\ \A c \in Callers :
                     (waiting[c] # <<>> /\ waiting[c][1].key = partner)
                     => ENABLED EnterAcquire(c))
    /\ [][\A c \in Callers :
            Len(scopes'[c]) < Len(scopes[c])
            => LET key == scopes[c][Len(scopes[c])].key
               IN  /\ Len(scopes'[c]) = Len(scopes[c]) - 1
                   /\ channel_operations_lock[key].owner = c
                   /\ channel_operations_lock'[key].count =
                          channel_operations_lock[key].count - 1
                   /\ channel_operations_lock'[key].owner =
                          IF Len(scopes'[c]) = 0 THEN 0 ELSE c]_vars

\* C11 witness: caller 1's close of channel 7, made inside a scope, was
\* rejected; caller 1 is outside every scope again, the lock of partner 0xAA is
\* free, and caller 2, who waits for it with channel 8, can acquire it.
C11_Wit ==
    /\ lastOp.op = "close"
    /\ lastOp.slot = 1
    /\ lastOp.outcome.exc = "LedgerRejected"
    /\ scopes[1] = <<>>
    /\ waiting[1] = <<>>
    /\ channel_operations_lock[PartnerOf(1)] = RLockNew
    /\ waiting[2] # <<>>
    /\ waiting[2][1].slot = 2
    /\ waiting[2][1].key = PartnerOf(1)
    /\ ENABLED EnterAcquire(2)

\* C12: the step that ends the collaborator's call ends the mutating operation:
\* nothing is submitted again, the operation has made exactly that one call, and
\* when the collaborator rejected the call the operation fails with the
\* collaborator's rejection, reason unchanged.
C12_Thm ==
    [][\A c \in Callers :
          (inflight[c] # <<>> /\ inflight'[c] # inflight[c])
          => /\ inflight'[c] = <<>>
             /\ lastOp'.op = inflight[c][1].call.call
             /\ lastOp'.op \in MutatingOps
             /\ lastOp'.calls = <<inflight[c][1].call>>
             /\ Len(lastOp'.responses) = 1
             /\ lastOp'.responses[1].exc = "LedgerRejected"
                => lastOp'.outcome = lastOp'.responses[1]
             /\ lastOp'.responses[1].exc = ""
                => lastOp'.outcome.exc = ""]_vars

\* C12 witness: settle() of a Closed channel was rejected with "insufficient
\* funds" and failed with exactly that; one call was made and nothing is in
\* flight.
C12_Wit ==
    /\ lastOp.op = "settle"
    /\ channels[1] # <<>>
    /\ LifecycleState(log, IdOf(1)) = "Closed"
    /\ lastOp.responses = <<Raise("LedgerRejected", "insufficient funds")>>
    /\ lastOp.outcome = Raise("LedgerRejected", "insufficient funds")
    /\ Len(lastOp.calls) = 1
    /\ inflight[1] = <<>>

\* C13: a query takes no lock and waits for none.  Whoever holds the partner's
\* lock, and whatever call is in flight under it, every query of a caller that
\* is not itself blocked can begin, a query that has begun can return, and
\* neither step touches the lock registry, the waiting callers or the scopes.
C13_Thm ==
    /\ [](\A c \in Callers, slot \in Slots, query \in Queries :
            (Idle(c) /\ channels[slot] # <<>>) => ENABLED QueryBegins(c, slot, query))
    /\ [](\A c \in Callers : IsQuerying(c) => ENABLED QueryEnds(c))
    /\ [][\A c \in Callers :
            (inflight'[c] # inflight[c] /\ (IsQuerying(c) \/ IsQuerying(c)'))
            => /\ channel_operations_lock' = channel_operations_lock
               /\ waiting' = waiting
               /\ scopes' = scopes]_vars

\* C13 witness: caller 1 holds the lock of partner 0xAA with its close of
\* channel 7 in flight, and caller 2's closed() of channel 8, whose partner is
\* 0xAA too, has begun and can return.
C13_Wit ==
    /\ IsMutating(1)
    /\ inflight[1][1].call.partner = PartnerOf(2)
    /\ channel_operations_lock[PartnerOf(2)] = [owner |-> 1, count |-> 1]
    /\ IsQuerying(2)
    /\ inflight[2][1].query = "closed"
    /\ inflight[2][1].slot = 2
    /\ waiting[2] = <<>>
    /\ scopes[2] = <<>>
    /\ ENABLED QueryEnds(2)

\* C15: no step of any kind (a query, all_events_filter, entering or leaving a
\* lock_or_raise scope, a mutating call or its end, an entry appended to the
\* ledger) changes channel_unique_id, participant1 or participant2 of a
\* constructed channel.
C15_Thm ==
    [][\A slot \in Slots :
          channels[slot] # <<>>
          => /\ channels'[slot] # <<>>
             /\ channels'[slot][1].channel_unique_id = channels[slot][1].channel_unique_id
             /\ channels'[slot][1].participant1 = channels[slot][1].participant1
             /\ channels'[slot][1].participant2 = channels[slot][1].participant2]_vars

\* C15 witness: after construction from Opened [0xAA, 0xBB] the ledger appended
\* Opened [0xBB, 0xAA] and Opened [0xBB, 0xCC] for the same id, and
\* settle_timeout() has read the last of them; the channel still has
\* participant1 = 0xBB and participant2 = 0xAA.
C15_Wit ==
    /\ lastOp.op = "settle_timeout"
    /\ lastOp.outcome = Return(50)
    /\ Len(log) = 3
    /\ log[2].event = "ChannelOpened" /\ log[2].args.participant1 = HexBB
    /\ log[2].args.participant2 = HexAA
    /\ log[3].event = "ChannelOpened" /\ log[3].args.participant2 = HexCC
    /\ channels[1][1].channel_unique_id = UniqueId(Id7)
    /\ channels[1][1].participant1 = <<187>>
    /\ channels[1][1].participant2 = <<170>>

\* C16: every constructed channel has participant1 # participant2, whatever
\* Opened entries the ledger holds.
C16_Distinct ==
    \A slot \in Slots :
       channels[slot] # <<>> => channels[slot][1].participant1 # channels[slot][1].participant2

\* C17: in every lifecycle state of the channel each of the five mutating
\* operations can be called and hands its call to the collaborator; the call in
\* flight carries the channel's channel_unique_id and, as partner, its
\* participant2, which is the counterparty and never the local node.
C17_Forwarded ==
    /\ \A op \in MutatingOps :
          (Idle(1) /\ channels[1] # <<>>) => ENABLED Call(1, 1, op)
    /\ IsMutating(1)
       => /\ inflight[1][1].call.channel_unique_id = channels[1][1].channel_unique_id
          /\ inflight[1][1].call.partner = channels[1][1].participant2
          /\ inflight[1][1].call.partner # token_network.node_address

\* What the ledger holds, at this moment, for a query of a channel: the
\* collaborator's current answer for the channel's participants and id, or the
\* field of the entry the query is derived from.
LiveAnswer(query, slot) ==
    LET p1 == channels[slot][1].participant1
        p2 == channels[slot][1].participant2
        uid == channels[slot][1].channel_unique_id
        openedEntries == EntriesOf(log, "ChannelOpened", uid.channel_id)
        closedEntries == EntriesOf(log, "ChannelClosed", uid.channel_id)
    IN  CASE query = "detail"          -> Return(tn_detail(p1, p2, uid, log))
          [] query = "opened"          -> Return(channel_is_opened(p1, p2, uid, log))
          [] query = "closed"          -> Return(channel_is_closed(p1, p2, uid, log))
          [] query = "settled"         -> Return(channel_is_settled(p1, p2, uid, log))
          [] query = "closing_address" -> Return(tn_closing_address(p1, p2, uid, log))
          [] query = "can_transfer"    -> Return(tn_can_transfer(p1, p2, uid, log))
          [] query = "settle_timeout"  -> Return(Last(openedEntries).args.settle_timeout)
          [] query = "close_block_number" ->
                IF Len(closedEntries) = 0 THEN ReturnNone
                ELSE IF Len(closedEntries) = 1 THEN Return(closedEntries[1].blockNumber)
                ELSE Raise(ProtocolInvariantViolation, "")

\* C18: a query step changes nothing but the caller's result: the ledger log
\* (and with it the ledger's channel state), the lock registry, the scopes and
\* the channel's fields stay as they were; and in every state, whatever was
\* asked before, each query returns what the ledger holds at that moment.
C18_Thm ==
    /\ [][(/\ lastOp'.op \in Queries
           /\ \/ lastOp'.op # lastOp.op
              \/ lastOp'.slot # lastOp.slot
              \/ lastOp'.outcome # lastOp.outcome)
          => /\ log' = log
             /\ channels' = channels
             /\ channel_operations_lock' = channel_operations_lock
             /\ scopes' = scopes
             /\ waiting' = waiting
             /\ inflight' = inflight]_vars
    /\ [](\A query \in Queries :
            (Idle(1) /\ channels[1] # <<>>)
            => ENABLED (/\ Ask(1, 1, query)
                        /\ lastOp'.op = query
                        /\ lastOp'.outcome.exc = LiveAnswer(query, 1).exc
                        /\ lastOp'.outcome.value = LiveAnswer(query, 1).value))

\* C18 witness: the ledger appended a deposit of the node and then a close
\* after the channel was constructed, and can_transfer() now returns False, the
\* answer for the closed channel; the log and the channel are what they were.
C18_Wit ==
    /\ lastOp.op = "can_transfer"
    /\ lastOp.outcome = Return(FALSE)
    /\ Len(log) = 3
    /\ log[2].event = "ChannelNewDeposit"
    /\ log[3].event = "ChannelClosed"
    /\ tn_can_transfer(<<187>>, <<170>>, UniqueId(Id7), SubSeq(log, 1, 2))
    /\ channels[1][1].participant2 = <<170>>
    /\ channel_operations_lock = <<>>

\* C19: a caller waiting for a partner's lock holds no lock of any other
\* partner; and when the lock is fair and every collaborator call ends, every
\* caller that waits for a lock acquires it, and every caller that has begun a
\* scoped operation completes it and is outside every scope again.
C19_Thm ==
    /\ [](\A c \in Callers :
            waiting[c] # <<>>
            => \A key \in DOMAIN channel_operations_lock :
                  channel_operations_lock[key].owner = c => key = waiting[c][1].key)
    /\ \A c \in Callers : (waiting[c] # <<>>) ~> (waiting[c] = <<>>)
    /\ \A c \in Callers :
          (waiting[c] # <<>> \/ scopes[c] # <<>>) ~> (Idle(c) /\ scopes[c] = <<>>)

\* C19 witness: caller 1 holds the lock of partner 0xAA twice, for channel 7,
\* with its settle in flight, and waits for nothing; caller 2 waits for that lock
\* with channel 8 and cannot acquire it now.
C19_Wit ==
    /\ Len(scopes[1]) = 2
    /\ IsMutating(1)
    /\ inflight[1][1].call.call = "settle"
    /\ channel_operations_lock[PartnerOf(1)] = [owner |-> 1, count |-> 2]
    /\ waiting[2] # <<>>
    /\ waiting[2][1].slot = 2
    /\ scopes[2] = <<>>
    /\ ~ENABLED EnterAcquire(2)

====
